---- MODULE Spec2Model ----
(***************************************************************************)
(* Zendesk audit-log connector of grove: Connector.collect                 *)
(* (grove/connectors/zendesk/audit_logs.py) driving Client.get_audit_logs  *)
(* and Client._get (grove/connectors/zendesk/api.py).                      *)
(*                                                                         *)
(* Time is a clock in ticks of 1/TicksPerSecond s; strftime with           *)
(* DATESTAMP_FORMAT keeps whole seconds, so a timestamp string is modelled *)
(* by its number of seconds (the format is fixed width, string order and   *)
(* numeric order agree).  A 2xx response is assumed to carry a JSON object.*)
(***************************************************************************)
EXTENDS Integers, Sequences, FiniteSets, TLC

\* ---------------------------------------------------------------- bounds
TicksPerSecond == 2
Clock0 == 400001
MaxTicks == 1
MaxPages == 3
Max429 == 1
MaxRetriesInARow == 2
MaxPasses == 2

\* ------------------------------------------------------ program constants
\* timedelta(days=1), in seconds
Lookback == 86400
\* requests.codes.too_many_requests
TooManyRequests == 429

\* Python None where a string (cursor, URL) is expected
None == "None"
\* Python None where a timestamp is expected
NoneDate == -1
\* the store raises NotFoundException: no pointer is held
NotFound == -2
\* int() raised ValueError
ValueError == -3
\* a key that a JSON body or a header mapping does not have
Absent == <<>>
Present(v) == <<v>>
NoError == "NoError"

API_BASE_URI == "https://identity.zendesk.com"
AuditLogsUrl == "https://identity.zendesk.com/api/v2/audit_logs"
FilterKey == "filter[created_at][]"

\* ------------------------------------------------------------ environment
\* created_at values of the entries the server may return
EntryOld == (Clock0 \div TicksPerSecond) - 5
EntryNew == (Clock0 \div TicksPerSecond) + 1
AuditLogLists == {<<EntryNew, EntryOld>>}
CursorUrls == {"https://identity.zendesk.com/page/a", "https://identity.zendesk.com/page/b"}
NextPageStrings == {None, ""} \cup CursorUrls
Bodies == [audit_logs : {Absent} \cup {Present(l) : l \in AuditLogLists},
           next_page : {Absent} \cup {Present(c) : c \in NextPageStrings}]
\* Retry-After header values, as sequences of characters
RetryAfterValues == {Absent, Present(<<"2">>), Present(<<"x">>)}
ErrorStatuses == {404, 503}
NoBody == [audit_logs |-> Absent, next_page |-> Absent]

VARIABLES
    clock,      \* wall clock, in ticks
    store,      \* the pointer held by the cache backend: NotFound or a timestamp
    pc,         \* position of the running pass
    caller,     \* who called get_audit_logs: "collect" or "direct"
    retry,      \* Client.retry
    now,        \* collect: local now
    cursor,     \* collect: local cursor
    req,        \* request in flight (or the last one sent)
    resp,       \* response being handled by _get
    delay,      \* argument of the pending time.sleep
    log,        \* AuditLogEntries returned by get_audit_logs
    err,        \* exception that ended the pass
    saved,      \* batches handed to save in this pass, in order
    sent,       \* history: HTTP requests issued in this pass, in order
    calls,      \* history: arguments of the get_audit_logs calls of this pass
    pages,      \* history: bodies of the 2xx responses of this pass, in order
    slept,      \* history: arguments of time.sleep in this pass
    n429,       \* history: number of 429 responses in this pass
    store0,     \* history: pointer held by the store when the pass started
    from0,      \* history: pointer resolved at the start of the pass
    passes,     \* history: number of passes (or direct calls) started
    left        \* history: the cursor the pass before held when it ended
                \* (recorded under SpecCarry only)

vars == <<clock, store, pc, caller, retry, now, cursor, req, resp, delay, log,
          err, saved, sent, calls, pages, slept, n429, store0, from0, passes, left>>

\* ---------------------------------------------------------- pure functions
\* datetime.strftime(DATESTAMP_FORMAT): whole seconds, sub-second part dropped
strftime(t) == t \div TicksPerSecond

\* timedelta(days=1) subtracted from a datetime (in ticks)
minus_lookback(t) == t - Lookback * TicksPerSecond

Digits == {"0", "1", "2", "3", "4", "5", "6", "7", "8", "9"}
DigitValue(c) ==
    CASE c = "0" -> 0 [] c = "1" -> 1 [] c = "2" -> 2 [] c = "3" -> 3
      [] c = "4" -> 4 [] c = "5" -> 5 [] c = "6" -> 6 [] c = "7" -> 7
      [] c = "8" -> 8 [] c = "9" -> 9

RECURSIVE DecimalValue(_)
DecimalValue(s) ==
    IF s = <<>> THEN 0
    ELSE DecimalValue(SubSeq(s, 1, Len(s) - 1)) * 10 + DigitValue(s[Len(s)])

\* int(text): the number, or ValueError when text is not a decimal literal
IsIntLiteral(s) == s # <<>> /\ \A i \in 1..Len(s) : s[i] \in Digits
int(s) == IF IsIntLiteral(s) THEN DecimalValue(s) ELSE ValueError

\* dict.get(key, default) on a response header / body field
get(value, default) == IF value = Absent THEN default ELSE value[1]

\* A dict display {k1: v1, k2: v2}: items are inserted left to right, a later
\* item with an equal key replaces the earlier value.
RECURSIVE dict(_)
dict(items) ==
    IF items = <<>> THEN <<>>
    ELSE LET rest == dict(SubSeq(items, 1, Len(items) - 1))
             last == items[Len(items)]
             hit  == {i \in 1..Len(rest) : rest[i][1] = last[1]}
         IN  IF hit = {} THEN Append(rest, last)
             ELSE [i \in 1..Len(rest) |-> IF i \in hit THEN last ELSE rest[i]]

\* requests encodes params: one query item per key, keys with value None dropped
RECURSIVE encode_params(_)
encode_params(d) ==
    IF d = <<>> THEN <<>>
    ELSE IF d[1][2] = NoneDate THEN encode_params(Tail(d))
         ELSE <<d[1]>> \o encode_params(Tail(d))

\* The HTTP request Client.get_audit_logs builds for its arguments
first_page_params(from_date, to_date) ==
    dict(<< <<FilterKey, from_date>>, <<FilterKey, to_date>> >>)

\* Variant: the cursor is ignored and every request is the date-filtered one.
get_audit_logs_request_M(c, from_date, to_date) ==
    [url |-> AuditLogsUrl,
     query |-> encode_params(first_page_params(from_date, to_date))]

\* Variant: the date filters are sent along with the cursor.
get_audit_logs_request_Both(c, from_date, to_date) ==
    [url |-> IF c # None THEN c ELSE AuditLogsUrl,
     query |-> encode_params(first_page_params(from_date, to_date))]

get_audit_logs_request(c, from_date, to_date) ==
    IF c # None
    THEN [url |-> c, query |-> <<>>]
    ELSE [url |-> AuditLogsUrl,
          query |-> encode_params(first_page_params(from_date, to_date))]

\* Variant: the empty string is not normalised to None.
next_cursor_M(body) == get(body.next_page, None)

\* The cursor Client.get_audit_logs extracts from a body
next_cursor(body) ==
    LET c == get(body.next_page, None) IN IF c = "" THEN None ELSE c

\* Variant: the entries are returned in the opposite order.
get_audit_logs_result_M(body) ==
    [cursor |-> next_cursor(body),
     entries |-> LET e == get(body.audit_logs, <<>>)
                 IN [i \in 1..Len(e) |-> e[Len(e) + 1 - i]]]

\* The AuditLogEntries Client.get_audit_logs returns for a body
get_audit_logs_result(body) ==
    [cursor |-> next_cursor(body), entries |-> get(body.audit_logs, <<>>)]

\* requests.Response.raise_for_status: HTTPError for 4xx and 5xx
raises_HTTPError(status) == status >= 400 /\ status < 600

NoReq == [url |-> None, query |-> <<>>]
NoResp == [status |-> 0, retry_after |-> Absent, body |-> NoBody]
NoLog == [cursor |-> None, entries |-> <<>>]

\* ------------------------------------------------------------------- Init
StoredPointers == {NotFound, strftime(Clock0) - 10}

Init ==
    /\ clock = Clock0
    /\ store \in StoredPointers
    /\ pc = "idle"
    /\ caller \in {"collect", "direct"}
    /\ retry = TRUE
    /\ now = NoneDate
    /\ cursor = None
    /\ req = NoReq
    /\ resp = NoResp
    /\ delay = 0
    /\ log = NoLog
    /\ err = NoError
    /\ saved = <<>>
    /\ sent = <<>>
    /\ calls = <<>>
    /\ pages = <<>>
    /\ slept = <<>>
    /\ n429 = 0
    /\ store0 = store
    /\ from0 = NoneDate
    /\ passes = 0
    /\ left = None

\* ---------------------------------------------------------------- actions
\* The clock advances on its own.  Only the reads of the clock observe it
\* (collect, lines 45 and 49), so the ticks are taken right before a read.
Tick ==
    /\ pc \in {"idle", "done", "failed", "resolve"}
    /\ clock < Clock0 + MaxTicks
    /\ clock' = clock + 1
    /\ UNCHANGED <<store, pc, caller, retry, now, cursor, req, resp, delay, log,
                   err, saved, sent, calls, pages, slept, n429, store0, from0, passes, left>>

\* Variant: the cursor of the pass before is kept.
CollectStartRecording_M(l) ==
    /\ caller = "collect"
    /\ pc \in {"idle", "done", "failed"}
    /\ passes < MaxPasses
    /\ passes' = passes + 1
    /\ retry' = TRUE
    /\ now' = strftime(clock)
    /\ pc' = "resolve"
    /\ req' = NoReq /\ resp' = NoResp /\ delay' = 0 /\ log' = NoLog
    /\ err' = NoError
    /\ saved' = <<>> /\ sent' = <<>> /\ calls' = <<>> /\ pages' = <<>>
    /\ slept' = <<>> /\ n429' = 0
    /\ store0' = store
    /\ from0' = NoneDate
    /\ left' = l
    /\ UNCHANGED <<clock, store, caller, cursor>>

\* collect, lines 40-45: construct the Client (retry defaults to True),
\* cursor = None, capture now; l is what the history variable left becomes.
CollectStartRecording(l) ==
    /\ caller = "collect"
    /\ pc \in {"idle", "done", "failed"}
    /\ passes < MaxPasses
    /\ passes' = passes + 1
    /\ retry' = TRUE
    /\ cursor' = None
    /\ now' = strftime(clock)
    /\ pc' = "resolve"
    /\ req' = NoReq /\ resp' = NoResp /\ delay' = 0 /\ log' = NoLog
    /\ err' = NoError
    /\ saved' = <<>> /\ sent' = <<>> /\ calls' = <<>> /\ pages' = <<>>
    /\ slept' = <<>> /\ n429' = 0
    /\ store0' = store
    /\ from0' = NoneDate
    /\ left' = l
    /\ UNCHANGED <<clock, store, caller>>

CollectStart == CollectStartRecording(left)

\* The same step, recording the cursor the frame of the pass before held.
CarryStart == CollectStartRecording(cursor)

\* A caller other than collect constructs a Client, with or without retries,
\* and calls get_audit_logs once.
DirectDates == {NoneDate, strftime(Clock0)}
DirectCursors == {None, "https://identity.zendesk.com/page/a"}
DirectCall ==
    /\ caller = "direct"
    /\ pc \in {"idle", "returned", "failed"}
    /\ passes < MaxPasses
    /\ passes' = passes + 1
    /\ \E rt \in BOOLEAN, c \in DirectCursors,
          f \in DirectDates, t \in DirectDates :
          /\ retry' = rt
          /\ calls' = <<[cursor |-> c, from_date |-> f, to_date |-> t]>>
          /\ req' = get_audit_logs_request(c, f, t)
          /\ sent' = <<req'>>
    /\ pc' = "inflight"
    /\ resp' = NoResp /\ delay' = 0 /\ log' = NoLog /\ err' = NoError
    /\ pages' = <<>> /\ slept' = <<>> /\ n429' = 0
    /\ store0' = store
    /\ UNCHANGED <<clock, store, caller, now, cursor, saved, from0, left>>

\* Variant: the documented 7-day look-back instead of timedelta(days=1).
seed_pointer_M(clk, nw) == strftime(clk - 7 * Lookback * TicksPerSecond)

\* The value collect assigns to self.pointer when none is stored
seed_pointer(clk, nw) == strftime(minus_lookback(clk))

\* BaseConnector.pointer (getter): raises NotFoundException when the store
\* holds no pointer.
pointer_raises(held) == held = NotFound

\* BaseConnector.pointer (setter): the store holds the value assigned.
pointer_set(held, value) == value

\* Variant: the pointer is seeded whether or not one is stored.
CollectResolve_M ==
    /\ pc = "resolve"
    /\ store' = pointer_set(store, seed_pointer(clock, now))
    /\ from0' = store'
    /\ pc' = "loop"
    /\ UNCHANGED <<clock, caller, retry, now, cursor, req, resp, delay, log, err,
                   saved, sent, calls, pages, slept, n429, store0, passes, left>>

\* collect, lines 46-51: read self.pointer; on NotFoundException seed it.
CollectResolve ==
    /\ pc = "resolve"
    /\ store' = IF pointer_raises(store)
                THEN pointer_set(store, seed_pointer(clock, now))
                ELSE store
    /\ from0' = store'
    /\ pc' = "loop"
    /\ UNCHANGED <<clock, caller, retry, now, cursor, req, resp, delay, log, err,
                   saved, sent, calls, pages, slept, n429, store0, passes, left>>

\* Variant: the clock is read again for the to_date of every call.
CollectFetch_M ==
    /\ pc = "loop"
    /\ calls' = Append(calls, [cursor |-> cursor, from_date |-> store,
                               to_date |-> strftime(clock)])
    /\ req' = get_audit_logs_request(cursor, store, strftime(clock))
    /\ sent' = Append(sent, req')
    /\ pc' = "inflight"
    /\ UNCHANGED <<clock, store, caller, retry, now, cursor, resp, delay, log, err,
                   saved, pages, slept, n429, store0, from0, passes, left>>

\* collect, lines 54-56: call get_audit_logs(from_date=self.pointer,
\* to_date=now, cursor=cursor); get_audit_logs builds the request and _get
\* issues it.
CollectFetch ==
    /\ pc = "loop"
    /\ calls' = Append(calls, [cursor |-> cursor, from_date |-> store, to_date |-> now])
    /\ req' = get_audit_logs_request(cursor, store, now)
    /\ sent' = Append(sent, req')
    /\ pc' = "inflight"
    /\ UNCHANGED <<clock, store, caller, retry, now, cursor, resp, delay, log, err,
                   saved, pages, slept, n429, store0, from0, passes, left>>

\* The server answers the request in flight; it answers 429 at most k times
\* in a pass.
ServerRespondUpTo(k) ==
    /\ pc = "inflight"
    /\ \/ \E b \in Bodies :
            /\ get(b.next_page, None) \in CursorUrls => Len(pages) + 1 < MaxPages
            /\ resp' = [status |-> 200, retry_after |-> Absent, body |-> b]
       \/ \E h \in RetryAfterValues :
            /\ n429 < k
            /\ resp' = [status |-> TooManyRequests, retry_after |-> h, body |-> NoBody]
       \/ \E s \in ErrorStatuses :
            resp' = [status |-> s, retry_after |-> Absent, body |-> NoBody]
    /\ pc' = "response"
    /\ UNCHANGED <<clock, store, caller, retry, now, cursor, req, delay, log, err,
                   saved, sent, calls, pages, slept, n429, store0, from0, passes, left>>

ServerRespond == ServerRespondUpTo(Max429)

\* Variant: the Retry-After header is not read, the delay is always 1.
retry_delay_M(r) == int(<<"1">>)

\* _get, line 77: the argument of time.sleep
retry_delay(r) == int(get(r.retry_after, <<"1">>))

\* Variant: a 429 is retried whatever self.retry says.
get_outcome_AlwaysRetry(r, rt) ==
    IF ~raises_HTTPError(r.status) THEN "return"
    ELSE IF r.status = TooManyRequests
         THEN IF retry_delay(r) = ValueError THEN "ValueError" ELSE "sleep"
         ELSE "RequestFailedException"

\* Variant: every HTTP error is retried like a 429.
get_outcome_RetryAll(r, rt) ==
    IF ~raises_HTTPError(r.status) THEN "return"
    ELSE IF rt
         THEN IF retry_delay(r) = ValueError THEN "ValueError" ELSE "sleep"
         ELSE IF r.status = TooManyRequests THEN "RateLimitException"
              ELSE "RequestFailedException"

\* What _get does with a response: "return", "sleep", or the exception raised
get_outcome(r, rt) ==
    IF ~raises_HTTPError(r.status) THEN "return"
    ELSE IF r.status = TooManyRequests
         THEN IF rt
              THEN IF retry_delay(r) = ValueError
                   THEN "ValueError" ELSE "sleep"
              ELSE "RateLimitException"
         ELSE "RequestFailedException"

\* Where control goes when get_audit_logs returns
after_return == IF caller = "collect" THEN "save" ELSE "returned"

\* _get, lines 67-84, and get_audit_logs, lines 121-127, on the response.
ClientHandle ==
    /\ pc = "response"
    /\ LET o == get_outcome(resp, retry) IN
       /\ n429' = IF resp.status = TooManyRequests THEN n429 + 1 ELSE n429
       /\ IF o = "return"
          THEN /\ log' = get_audit_logs_result(resp.body)
               /\ pages' = Append(pages, resp.body)
               /\ pc' = after_return
               /\ UNCHANGED <<delay, err>>
          ELSE IF o = "sleep"
          THEN /\ delay' = retry_delay(resp)
               /\ pc' = "sleep"
               /\ UNCHANGED <<log, pages, err>>
          ELSE /\ err' = o
               /\ pc' = "failed"
               /\ UNCHANGED <<log, pages, delay>>
    /\ UNCHANGED <<clock, store, caller, retry, now, cursor, req, resp, saved,
                   sent, calls, slept, store0, from0, passes, left>>

\* _get, lines 77-78 and 69: time.sleep(delay) returns, the loop re-issues
\* requests.get(url, headers=self.headers, params=params).
ClientSleepRetry ==
    /\ pc = "sleep"
    /\ clock' = clock + delay * TicksPerSecond
    /\ slept' = Append(slept, delay)
    /\ sent' = Append(sent, req)
    /\ pc' = "inflight"
    /\ UNCHANGED <<store, caller, retry, now, cursor, req, resp, delay, log, err,
                   saved, calls, pages, n429, store0, from0, passes, left>>

\* BaseConnector.save: the batch is handed to the sink.
save(batches, entries) == Append(batches, entries)

\* Variant: the pointer is advanced to now after every saved page.
CollectSave_M ==
    /\ pc = "save"
    /\ saved' = save(saved, log.entries)
    /\ store' = now
    /\ pc' = "check"
    /\ UNCHANGED <<clock, caller, retry, now, cursor, req, resp, delay, log,
                   err, sent, calls, pages, slept, n429, store0, from0, passes, left>>

\* collect, line 59: self.save(log.entries)
CollectSave ==
    /\ pc = "save"
    /\ saved' = save(saved, log.entries)
    /\ pc' = "check"
    /\ UNCHANGED <<clock, store, caller, retry, now, cursor, req, resp, delay, log,
                   err, sent, calls, pages, slept, n429, store0, from0, passes, left>>

\* Variant: the pointer is set to now when the loop is left.
CollectCheckCursor_M ==
    /\ pc = "check"
    /\ cursor' = log.cursor
    /\ pc' = IF cursor' = None THEN "done" ELSE "loop"
    /\ store' = IF cursor' = None THEN now ELSE store
    /\ UNCHANGED <<clock, caller, retry, now, req, resp, delay, log, err,
                   saved, sent, calls, pages, slept, n429, store0, from0, passes, left>>

\* collect, lines 62-64: cursor = log.cursor; leave the loop when it is None.
CollectCheckCursor ==
    /\ pc = "check"
    /\ cursor' = log.cursor
    /\ pc' = IF cursor' = None THEN "done" ELSE "loop"
    /\ UNCHANGED <<clock, store, caller, retry, now, req, resp, delay, log, err,
                   saved, sent, calls, pages, slept, n429, store0, from0, passes, left>>

Next ==
    \/ Tick
    \/ CollectStart
    \/ DirectCall
    \/ CollectResolve
    \/ CollectFetch
    \/ ServerRespond
    \/ ClientHandle
    \/ ClientSleepRetry
    \/ CollectSave
    \/ CollectCheckCursor

Spec == Init /\ [][Next]_vars

\* One pass of collect in which every step that can be taken is eventually
\* taken: the interpreter runs the next statement, requests.get and
\* time.sleep return, and the server stops answering 429 after
\* MaxRetriesInARow of them.
InitLive == Init /\ caller = "collect"
LiveStart == CollectStart /\ passes = 0
LiveRespond == ServerRespondUpTo(MaxRetriesInARow)

NextLive ==
    \/ Tick
    \/ LiveStart
    \/ CollectResolve
    \/ CollectFetch
    \/ LiveRespond
    \/ ClientHandle
    \/ ClientSleepRetry
    \/ CollectSave
    \/ CollectCheckCursor

FairLive ==
    /\ WF_vars(CollectResolve)
    /\ WF_vars(CollectFetch)
    /\ WF_vars(LiveRespond)
    /\ WF_vars(ClientHandle)
    /\ WF_vars(ClientSleepRetry)
    /\ WF_vars(CollectSave)
    /\ WF_vars(CollectCheckCursor)

SpecLive == InitLive /\ [][NextLive]_vars /\ FairLive

\* Passes of collect one after the other, with the cursor each pass ended
\* with recorded in left; the clock advances only by the sleeps of _get.
NextCarry ==
    \/ CarryStart
    \/ CollectResolve
    \/ CollectFetch
    \/ ServerRespond
    \/ ClientHandle
    \/ ClientSleepRetry
    \/ CollectSave
    \/ CollectCheckCursor

SpecCarry == InitLive /\ [][NextCarry]_vars

\* ======================================================================
\* Properties
\* ======================================================================
RECURSIVE TotalEntries(_)
TotalEntries(batches) ==
    IF batches = <<>> THEN 0 ELSE Len(batches[1]) + TotalEntries(Tail(batches))

\* the entries each served page carries (none when audit_logs is missing)
PageEntries(ps) ==
    [i \in 1..Len(ps) |-> IF ps[i].audit_logs = Absent THEN <<>> ELSE ps[i].audit_logs[1]]

\* the cursor a served page carries, "" when it carries none
PageCursor(p) ==
    IF p.next_page = Absent \/ p.next_page = Present(None) THEN "" ELSE p.next_page[1]

IsDateFiltered(r) ==
    /\ r.url = AuditLogsUrl
    /\ r.query # <<>>
    /\ \A i \in 1..Len(r.query) : r.query[i][1] = FilterKey

IsCursorOnly(r, c) == r.url = c /\ c \in CursorUrls /\ r.query = <<>>

InPass == caller = "collect"

\* C1: a completed pass over N+1 pages made one get_audit_logs call per page
\* and one HTTP request per page plus one per 429; without 429s the requests
\* are one date-filtered request followed by N cursor-only requests, each to
\* the cursor of the page before; every page was saved and the number of
\* entries saved is the sum of the entries of the pages.
C1_Pagination ==
    (InPass /\ pc = "done") =>
        /\ Len(calls) = Len(pages)
        /\ Len(sent) = Len(pages) + n429
        /\ n429 = 0 =>
             /\ IsDateFiltered(sent[1])
             /\ \A i \in 2..Len(sent) : IsCursorOnly(sent[i], PageCursor(pages[i - 1]))
        /\ Len(saved) = Len(pages)
        /\ TotalEntries(saved) = TotalEntries(PageEntries(pages))

C1_Witness ==
    /\ InPass /\ pc = "done" /\ n429 = 0
    /\ Len(pages) = 3 /\ Len(sent) = 3
    /\ TotalEntries(saved) >= 4

C3_BothBounds ==
    (InPass /\ sent # <<>>) =>
        sent[1].query = << <<FilterKey, from0>>, <<FilterKey, now>> >>

\* C4: the to bound of a completed pass is the from bound of the next pass:
\* the pass that follows a completed pass starts from a stored pointer equal
\* to the now of that pass, and the first request of every pass asks for the
\* entries created from its pointer on.
C4_ToBecomesFrom ==
    [][/\ (InPass /\ pc = "done" /\ pc' = "resolve") => store' = now
       /\ (InPass /\ pc = "loop" /\ sent = <<>>)
          => (/\ Len(sent'[1].query) = 2
              /\ sent'[1].query[1] = <<FilterKey, store>>)]_vars

HeaderSeconds(h) ==
    IF h = Absent THEN 1
    ELSE IF h = Present(<<"2">>) THEN 2
    ELSE ValueError

\* C6: with retries enabled, a 429 whose Retry-After is missing or a number
\* of seconds leads to one sleep of exactly that many seconds (1 when
\* missing) and then to the same request again; nothing is saved and the
\* pointer is not written while a request is outstanding.
C6_RetryAfter ==
    [][/\ (pc = "response" /\ resp.status = TooManyRequests /\ retry
             /\ HeaderSeconds(resp.retry_after) # ValueError)
          => (pc' = "sleep" /\ delay' = HeaderSeconds(resp.retry_after)
                /\ sent' = sent /\ slept' = slept)
       /\ pc = "sleep"
          => (/\ slept' = Append(slept, HeaderSeconds(resp.retry_after))
              /\ clock' = clock + HeaderSeconds(resp.retry_after) * TicksPerSecond
              /\ req' = req
              /\ sent' = Append(sent, sent[Len(sent)])
              /\ pc' = "inflight")
       /\ pc \in {"inflight", "response", "sleep"}
          => (saved' = saved /\ store' = store)]_vars

C6_Witness ==
    /\ InPass /\ pc = "save" /\ n429 = 1
    /\ slept = <<2>> /\ Len(pages) = 2
    /\ Len(sent) = 3 /\ sent[2] = sent[3] /\ sent[2].url \in CursorUrls
    /\ Len(saved) = 1 /\ store = from0

\* C7: with retries disabled a 429 ends the call with RateLimitException:
\* no sleep, no further request, the pointer as it was; the exception is not
\* RequestFailedException.
C7_NoRetry ==
    ~retry =>
        /\ pc # "sleep"
        /\ slept = <<>>
        /\ (resp.status = TooManyRequests /\ pc # "response") =>
             /\ pc = "failed"
             /\ err = "RateLimitException"
             /\ err # "RequestFailedException"
             /\ Len(sent) = 1
             /\ store = store0

C7_Witness ==
    /\ ~retry /\ pc = "failed" /\ err = "RateLimitException"
    /\ resp.status = TooManyRequests /\ resp.retry_after # Absent
    /\ Len(sent) = 1 /\ slept = <<>>

IsOtherError(status) == raises_HTTPError(status) /\ status # TooManyRequests

LastPageIsTerminal ==
    /\ pages # <<>>
    /\ pages[Len(pages)].next_page \in {Absent, Present(None), Present("")}

\* C10: a page whose next_page is "" ends the pagination like one whose
\* next_page is missing or null: its entries are saved, the pass completes,
\* and no request is ever issued to an empty cursor.
C10_EmptyCursor ==
    /\ \A i \in 1..Len(sent) : sent[i].url \notin {"", None}
    /\ (InPass /\ LastPageIsTerminal) =>
         /\ pc \in {"save", "check", "done"}
         /\ log.cursor = None
         /\ pc = "done" => Len(saved) = Len(pages)

C10_Witness ==
    /\ InPass /\ pc = "done" /\ Len(pages) = 2
    /\ pages[2].next_page = Present("")
    /\ Len(saved) = 2 /\ Len(sent) = 2

\* C11: collect passes the pointer and now on every call, yet every request
\* issued after a page was served goes to exactly the cursor of the page
\* served last and carries no query; only the requests issued before the
\* first page (the first request and its re-issues) carry the date filter.
C11_CursorSupersedes ==
    InPass =>
        /\ \A i \in 1..Len(calls) :
             calls[i].from_date # NoneDate /\ calls[i].to_date = now
        /\ \A i \in 1..Len(sent) :
             IsDateFiltered(sent[i]) \/ (sent[i].url \in CursorUrls /\ sent[i].query = <<>>)
        /\ pc \in {"inflight", "response", "sleep"} =>
             IF pages = <<>>
             THEN IsDateFiltered(req)
             ELSE IsCursorOnly(req, PageCursor(pages[Len(pages)]))
        /\ \A i \in 2..Len(calls) : calls[i].cursor = PageCursor(pages[i - 1])

C11_Witness ==
    /\ InPass /\ pc = "inflight" /\ Len(pages) = 2 /\ Len(calls) = 3
    /\ PageCursor(pages[1]) # PageCursor(pages[2])
    /\ req = [url |-> PageCursor(pages[2]), query |-> <<>>]
    /\ calls[3].from_date = from0 /\ calls[3].to_date = now

\* C12: with retries enabled, a 429 whose Retry-After is present but not a
\* number of seconds is followed by a sleep of 1 second and a re-issue of the
\* request; the pass does not fail.
C12_UnparsableFallsBack ==
    (retry /\ resp.status = TooManyRequests /\ pc # "response"
       /\ resp.retry_after # Absent /\ HeaderSeconds(resp.retry_after) = ValueError)
    => (pc # "failed" /\ err = NoError /\ delay = 1)

PassEnded == pc \in {"done", "failed"}

\* the termination half of C13 on its own
C13_PassTerminates == (pc = "resolve") ~> PassEnded

\* C13: with retries enabled (as in every pass) a request is re-issued after
\* every 429, however many occur in a row, and a pass whose server eventually
\* stops answering 429 and whose chain of cursors is finite terminates.
C13_RetriesUnbounded ==
    /\ [][(InPass /\ retry /\ pc = "response" /\ resp.status = TooManyRequests)
            => pc' = "sleep"]_vars
    /\ C13_PassTerminates

AllButLast(seq) == SubSeq(seq, 1, Len(seq) - 1)

C16_NowCapturedOnce ==
    [][InPass =>
         /\ (pc' = "resolve" /\ pc # "resolve")
               => (now' = strftime(clock) /\ sent' = <<>> /\ calls' = <<>>
                     /\ from0' = NoneDate /\ store' = store)
         /\ ~(pc' = "resolve" /\ pc # "resolve") => now' = now
         /\ \A i \in 1..Len(calls') : calls'[i].to_date = now']_vars

C16_Witness ==
    /\ InPass /\ pc = "inflight"
    /\ slept # <<>> /\ pages # <<>> /\ Len(calls) = 2
    /\ strftime(clock) > now
    /\ calls[2].to_date = now

\* C17: every pass starts with no cursor: when the pointer is resolved the
\* cursor is None, the first call of the pass is made without a cursor and
\* the first request of the pass is the date-filtered one, whatever cursor the
\* pass before held when it ended.
C17_CursorNeverCrosses ==
    InPass =>
        /\ pc = "resolve" => cursor = None
        /\ calls # <<>> => calls[1].cursor = None
        /\ sent # <<>> => IsDateFiltered(sent[1])

\* the first request of a pass that follows one aborted while holding a
\* cursor
C17_Witness ==
    /\ InPass /\ passes = 2 /\ left \in CursorUrls
    /\ pc = "inflight" /\ Len(sent) = 1 /\ Len(calls) = 1
    /\ cursor = None /\ calls[1].cursor = None
    /\ IsDateFiltered(req)

\* C18: a pass always runs with retries enabled: every 429 it receives is
\* retried and the pass never fails with RateLimitException.
C18_AlwaysRetried ==
    InPass =>
        /\ retry
        /\ err # "RateLimitException"
        /\ pc = "failed" => resp.status # TooManyRequests

====
